---- MODULE Spec2Model ----
(***************************************************************************)
(* HdEngine (pxr/imaging/hd/engine.cpp): the task context (a map from      *)
(* token to value owned by the engine) and the phased Execute call that    *)
(* seeds the drivers entry, calls SyncAll, every task's Prepare,           *)
(* CommitResources and every task's Execute.  The engine is single         *)
(* threaded.  Next takes each collaborator call as one step that returns   *)
(* and leaves the task list alone; NextOpen takes a call and its return as *)
(* two steps, and lets a collaborator resize the list, fail or not return. *)
(***************************************************************************)
EXTENDS Integers, Sequences, FiniteSets, TLC

VARIABLES taskContext, pc, index, tasks, taskPaths, numPaths, numTasks, taskNum,
          log, errors, nullDerefs, lastOp, lastId, lastData, ret, ctxBefore,
          pub, touched, failedAt, inProgress

\* taskContext  _taskContext, as the set of its (key, value) entries
\* pc           where the engine is: idle, in the path loop (resolving), before
\*              SyncAll (sync), in the Prepare loop, in the Execution loop, or
\*              stopped by a fault
\* index, tasks the arguments of the primary Execute; taskPaths, numPaths the
\*              paths read so far and the size of the path overload's argument
\* numTasks, taskNum  the locals of the two task loops
\* log          the collaborator calls of the current or last Execute call
\* errors       the usage errors (TF_CODING_ERROR, TF_VERIFY) it reported
\* nullDerefs   the member calls it made through a null index
\* lastOp, lastId, lastData, ret  the last public operation, its arguments
\*              and the result of GetTaskContextData
\* ctxBefore    taskContext when the last public operation was called
\* pub          the entries written by Prepare calls of the current call and
\*              neither overwritten nor removed since
\* touched      a collaborator wrote or removed the drivers entry in this call
\* failedAt     the place in log of the first task call of this Execute call
\*              that failed and returned, 0 when there is none
\* inProgress   the number of collaborator calls issued and not yet over
vars == <<taskContext, pc, index, tasks, taskPaths, numPaths, numTasks, taskNum,
          log, errors, nullDerefs, lastOp, lastId, lastData, ret, ctxBefore,
          pub, touched, failedAt, inProgress>>

\* ------------------------------------------------------------------ bounds
MaxTasks == 2
MaxPaths == 4

\* ------------------------------------------------------------ value spaces
Null == "nullptr"
Absent == "absent"
EmptyValue == "VtValue()"
DriversToken == "drivers"
Tokens == {DriversToken, "k"}
Data == {"d1", "d2"}
Indexes == {"ix1", "ix2"}
TaskHandles == {"tA", "tB"}
Paths == {"", "/A", "/B", "/missing"}

RECURSIVE SeqsUpTo(_, _)
SeqsUpTo(S, n) ==
    IF n = 0 THEN {<<>>}
    ELSE LET shorter == SeqsUpTo(S, n - 1)
         IN  shorter \cup {Append(s, x) : s \in {t \in shorter : Len(t) = n - 1}, x \in S}

TaskLists == SeqsUpTo(TaskHandles, MaxTasks)

\* a null HdTaskSharedPtrVector pointer
NullTasks == <<Null>>

\* --------------------------------------------------------- collaborators
\* HdRenderIndex::GetDrivers: the driver set of a render index.
GetDrivers(ix) == IF ix = "ix1" THEN "d1" ELSE "d2"

\* HdRenderIndex::GetTask: the task at a path, or an empty handle.
GetTask(ix, path) ==
    CASE path = "/A" /\ ix = "ix1" -> "tA"
      [] path = "/B" /\ ix = "ix1" -> "tB"
      [] path = "/A" /\ ix = "ix2" -> "tB"
      [] OTHER -> Absent

\* SdfPath::IsEmpty
IsEmpty(path) == path = ""

\* -------------------------------------------- HdTaskContext (token -> value)
Entry(id, data) == [key |-> id, value |-> data]

\* find(id): the entries stored under id
Find(ctx, id) == {e \in ctx : e.key = id}

\* emplace(id, data): inserts only when no entry has the key
Emplace(ctx, id, data) ==
    IF Find(ctx, id) = {}
    THEN [ctx |-> ctx \cup {Entry(id, data)}, second |-> TRUE]
    ELSE [ctx |-> ctx, second |-> FALSE]

\* result.first->second = data: the entry found under id takes the value
AssignSecond(ctx, id, data) ==
    IF Find(ctx, id) = {} THEN ctx
    ELSE LET hit == CHOOSE e \in Find(ctx, id) : TRUE
         IN  (ctx \ {hit}) \cup {Entry(id, data)}

\* ctx[id] = data: operator[] default-inserts a missing key, then assigns
SubscriptAssign(ctx, id, data) ==
    AssignSecond(Emplace(ctx, id, EmptyValue).ctx, id, data)

\* erase(id)
Erase(ctx, id) == ctx \ Find(ctx, id)

\* clear()
Clear(ctx) == {}

\* what a collaborator given the HdTaskContext pointer does with it
CtxOps ==
    {[kind |-> "none", key |-> DriversToken, value |-> EmptyValue]}
    \cup {[kind |-> "set", key |-> k, value |-> v] : k \in Tokens, v \in Data}
    \cup {[kind |-> "erase", key |-> k, value |-> EmptyValue] : k \in Tokens}
    \cup {[kind |-> "clear", key |-> DriversToken, value |-> EmptyValue]}

ApplyOp(ctx, op) ==
    CASE op.kind = "set" -> SubscriptAssign(ctx, op.key, op.value)
      [] op.kind = "erase" -> Erase(ctx, op.key)
      [] op.kind = "clear" -> Clear(ctx)
      [] OTHER -> ctx

OpTouches(op, id) ==
    \/ op.kind = "clear"
    \/ op.kind \in {"set", "erase"} /\ op.key = id

\* entries published by Prepare calls of this Execute call and still standing
PubAfter(p, op, publishes) ==
    LET kept == {e \in p : ~OpTouches(op, e.key)}
    IN  IF publishes /\ op.kind = "set"
        THEN kept \cup {Entry(op.key, op.value)}
        ELSE kept

\* ---------------------------------------------------------------- call log
Call(name, on, pos, list) == [call |-> name, on |-> on, pos |-> pos, list |-> list]

Init ==
    /\ taskContext = {}
    /\ pc = "idle"
    /\ index = Null
    /\ tasks = <<>>
    /\ taskPaths = <<>>
    /\ numPaths = 0
    /\ nullDerefs = 0
    /\ numTasks = 0
    /\ taskNum = 0
    /\ log = <<>>
    /\ errors = 0
    /\ lastOp = "HdEngine"
    /\ lastId = DriversToken
    /\ lastData = EmptyValue
    /\ ret = [found |-> FALSE, data |-> EmptyValue]
    /\ ctxBefore = {}
    /\ pub = {}
    /\ touched = FALSE
    /\ failedAt = 0
    /\ inProgress = 0

NoRet == [found |-> FALSE, data |-> EmptyValue]

\* between Execute calls: no arguments, no locals, nothing called
NoCall ==
    /\ pc' = "idle"
    /\ index' = Null
    /\ tasks' = <<>>
    /\ taskPaths' = <<>>
    /\ numPaths' = 0
    /\ numTasks' = 0
    /\ taskNum' = 0
    /\ nullDerefs' = 0
    /\ failedAt' = 0
    /\ inProgress' = 0

SetTaskContextData_noUpdate(id, data) ==
    /\ pc = "idle"
    /\ taskContext' = Emplace(taskContext, id, data).ctx
    /\ ctxBefore' = taskContext
    /\ lastOp' = "SetTaskContextData"
    /\ lastId' = id
    /\ lastData' = data
    /\ ret' = NoRet
    /\ log' = <<>>
    /\ errors' = 0
    /\ pub' = {}
    /\ touched' = FALSE
    /\ NoCall

\* ------------------------------------------------------ task context API
SetTaskContextData(id, data) ==
    /\ pc = "idle"
    /\ LET result == Emplace(taskContext, id, data)
       IN  taskContext' = IF ~result.second
                          THEN AssignSecond(result.ctx, id, data)
                          ELSE result.ctx
    /\ ctxBefore' = taskContext
    /\ lastOp' = "SetTaskContextData"
    /\ lastId' = id
    /\ lastData' = data
    /\ ret' = NoRet
    /\ log' = <<>>
    /\ errors' = 0
    /\ pub' = {}
    /\ touched' = FALSE
    /\ NoCall

\* the lookup of GetTaskContextData with a non-null out pointer
Lookup(ctx, id) ==
    IF Find(ctx, id) # {}
    THEN [found |-> TRUE, data |-> (CHOOSE e \in Find(ctx, id) : TRUE).value]
    ELSE NoRet

GetTaskContextData(id, dataPtr) ==
    /\ pc = "idle"
    /\ IF dataPtr = Null
       THEN ret' = NoRet /\ errors' = 1
       ELSE ret' = Lookup(taskContext, id) /\ errors' = 0
    /\ ctxBefore' = taskContext
    /\ lastOp' = "GetTaskContextData"
    /\ lastId' = id
    /\ lastData' = EmptyValue
    /\ log' = <<>>
    /\ pub' = {}
    /\ touched' = FALSE
    /\ NoCall
    /\ UNCHANGED taskContext

RemoveTaskContextData_clear(id) ==
    /\ pc = "idle"
    /\ taskContext' = Clear(taskContext)
    /\ ctxBefore' = taskContext
    /\ lastOp' = "RemoveTaskContextData"
    /\ lastId' = id
    /\ lastData' = EmptyValue
    /\ ret' = NoRet
    /\ log' = <<>>
    /\ errors' = 0
    /\ pub' = {}
    /\ touched' = FALSE
    /\ NoCall

RemoveTaskContextData(id) ==
    /\ pc = "idle"
    /\ taskContext' = Erase(taskContext, id)
    /\ ctxBefore' = taskContext
    /\ lastOp' = "RemoveTaskContextData"
    /\ lastId' = id
    /\ lastData' = EmptyValue
    /\ ret' = NoRet
    /\ log' = <<>>
    /\ errors' = 0
    /\ pub' = {}
    /\ touched' = FALSE
    /\ NoCall

ClearTaskContextData ==
    /\ pc = "idle"
    /\ taskContext' = Clear(taskContext)
    /\ ctxBefore' = taskContext
    /\ lastOp' = "ClearTaskContextData"
    /\ lastId' = DriversToken
    /\ lastData' = EmptyValue
    /\ ret' = NoRet
    /\ log' = <<>>
    /\ errors' = 0
    /\ pub' = {}
    /\ touched' = FALSE
    /\ NoCall

\* ------------------------------------------------------- HdEngine::Execute
Seed_emplace(ctx, ix) == Emplace(ctx, DriversToken, GetDrivers(ix)).ctx

Seed_reset(ctx, ix) == {Entry(DriversToken, GetDrivers(ix))}

\* _taskContext[HdTokens->drivers] = VtValue(index->GetDrivers())
Seed(ctx, ix) == SubscriptAssign(ctx, DriversToken, GetDrivers(ix))

ExecuteEntry_seedFirst(ix, tl, priorErrors) ==
    IF ix = Null
    THEN /\ errors' = priorErrors + 1
         /\ log' = <<>>
         /\ pc' = "idle"
         /\ UNCHANGED taskContext
    ELSE /\ taskContext' = Seed(taskContext, ix)
         /\ log' = <<Call("GetDrivers", ix, 0, <<>>)>>
         /\ errors' = IF tl = NullTasks THEN priorErrors + 1 ELSE priorErrors
         /\ pc' = IF tl = NullTasks THEN "idle" ELSE "sync"

ExecuteEntry_noSeed(ix, tl, priorErrors) ==
    IF (ix = Null) \/ (tl = NullTasks)
    THEN /\ errors' = priorErrors + 1
         /\ log' = <<>>
         /\ pc' = "idle"
         /\ UNCHANGED taskContext
    ELSE /\ errors' = priorErrors
         /\ log' = <<Call("GetDrivers", ix, 0, <<>>)>>
         /\ pc' = "sync"
         /\ UNCHANGED taskContext

\* entry of Execute(index, tasks): the nullptr check, then the seed.
\* priorErrors is what the calling overload has already reported.
ExecuteEntry(ix, tl, priorErrors) ==
    IF (ix = Null) \/ (tl = NullTasks)
    THEN /\ errors' = priorErrors + 1
         /\ log' = <<>>
         /\ pc' = "idle"
         /\ UNCHANGED taskContext
    ELSE /\ errors' = priorErrors
         /\ taskContext' = Seed(taskContext, ix)
         /\ log' = <<Call("GetDrivers", ix, 0, <<>>)>>
         /\ pc' = "sync"

Execute(ix, tl) ==
    /\ pc = "idle"
    /\ ExecuteEntry(ix, tl, 0)
    /\ index' = ix
    /\ tasks' = tl
    /\ taskPaths' = <<>>
    /\ numPaths' = 0
    /\ nullDerefs' = 0
    /\ numTasks' = 0
    /\ taskNum' = 0
    /\ ctxBefore' = taskContext
    /\ lastOp' = "Execute"
    /\ lastId' = DriversToken
    /\ lastData' = EmptyValue
    /\ ret' = NoRet
    /\ pub' = {}
    /\ touched' = FALSE
    /\ failedAt' = 0
    /\ inProgress' = 0

InLoop_offByOne(n, count) == n + 1 < count

\* the loop condition taskNum < numTasks of both task loops
InLoop(n, count) == n < count

TaskAt_reversed(tl, n) == tl[Len(tl) - n]

\* (*tasks)[taskNum]
TaskAt(tl, n) == tl[n + 1]

SyncAll_returnOnEmpty(op) ==
    /\ pc = "sync"
    /\ taskContext' = ApplyOp(taskContext, op)
    /\ log' = Append(log, Call("SyncAll", index, 0, tasks))
    /\ numTasks' = Len(tasks)
    /\ taskNum' = 0
    /\ pc' = IF Len(tasks) = 0 THEN "idle" ELSE "prepare"
    /\ pub' = PubAfter(pub, op, FALSE)
    /\ touched' = (touched \/ OpTouches(op, DriversToken))
    /\ UNCHANGED <<index, tasks, taskPaths, numPaths, errors, nullDerefs, lastOp, lastId,
                   lastData, ret, ctxBefore>>
    /\ UNCHANGED <<failedAt, inProgress>>

\* index->SyncAll(tasks, &_taskContext); numTasks = tasks->size()
SyncAll(op) ==
    /\ pc = "sync"
    /\ taskContext' = ApplyOp(taskContext, op)
    /\ log' = Append(log, Call("SyncAll", index, 0, tasks))
    /\ numTasks' = Len(tasks)
    /\ taskNum' = 0
    /\ pc' = "prepare"
    /\ pub' = PubAfter(pub, op, FALSE)
    /\ touched' = (touched \/ OpTouches(op, DriversToken))
    /\ UNCHANGED <<index, tasks, taskPaths, numPaths, errors, nullDerefs, lastOp, lastId,
                   lastData, ret, ctxBefore>>
    /\ UNCHANGED <<failedAt, inProgress>>

\* one iteration of the Task Prepare loop
TaskPrepare(op) ==
    /\ pc = "prepare"
    /\ InLoop(taskNum, numTasks)
    /\ LET task == TaskAt(tasks, taskNum)
       IN  log' = Append(log, Call("Prepare", task, taskNum, <<>>))
    /\ taskContext' = ApplyOp(taskContext, op)
    /\ taskNum' = taskNum + 1
    /\ pub' = PubAfter(pub, op, TRUE)
    /\ touched' = (touched \/ OpTouches(op, DriversToken))
    /\ UNCHANGED <<pc, index, tasks, taskPaths, numPaths, numTasks, errors, nullDerefs,
                   lastOp, lastId, lastData, ret, ctxBefore>>
    /\ UNCHANGED <<failedAt, inProgress>>

CommitResources_early ==
    /\ pc = "prepare"
    /\ log' = Append(log, Call("CommitResources", index, 0, <<>>))
    /\ taskNum' = 0
    /\ pc' = "execute"
    /\ UNCHANGED <<taskContext, index, tasks, taskPaths, numPaths, numTasks, errors,
                   nullDerefs, lastOp, lastId, lastData, ret, ctxBefore, pub,
                   touched>>
    /\ UNCHANGED <<failedAt, inProgress>>

CommitResources_skipEmpty ==
    /\ pc = "prepare"
    /\ ~InLoop(taskNum, numTasks)
    /\ log' = IF numTasks = 0 THEN log
              ELSE Append(log, Call("CommitResources", index, 0, <<>>))
    /\ taskNum' = 0
    /\ pc' = "execute"
    /\ UNCHANGED <<taskContext, index, tasks, taskPaths, numPaths, numTasks, errors,
                   nullDerefs, lastOp, lastId, lastData, ret, ctxBefore, pub,
                   touched>>
    /\ UNCHANGED <<failedAt, inProgress>>

\* the Prepare loop ends; renderDelegate->CommitResources(...)
CommitResources ==
    /\ pc = "prepare"
    /\ ~InLoop(taskNum, numTasks)
    /\ log' = Append(log, Call("CommitResources", index, 0, <<>>))
    /\ taskNum' = 0
    /\ pc' = "execute"
    /\ UNCHANGED <<taskContext, index, tasks, taskPaths, numPaths, numTasks, errors,
                   nullDerefs, lastOp, lastId, lastData, ret, ctxBefore, pub,
                   touched>>
    /\ UNCHANGED <<failedAt, inProgress>>

\* one iteration of the Task Execution loop
TaskExecute(op) ==
    /\ pc = "execute"
    /\ InLoop(taskNum, numTasks)
    /\ LET task == TaskAt(tasks, taskNum)
       IN  log' = Append(log, Call("Execute", task, taskNum, <<>>))
    /\ taskContext' = ApplyOp(taskContext, op)
    /\ taskNum' = taskNum + 1
    /\ pub' = PubAfter(pub, op, FALSE)
    /\ touched' = (touched \/ OpTouches(op, DriversToken))
    /\ UNCHANGED <<pc, index, tasks, taskPaths, numPaths, numTasks, errors, nullDerefs,
                   lastOp, lastId, lastData, ret, ctxBefore>>
    /\ UNCHANGED <<failedAt, inProgress>>

\* the Execution loop ends and Execute returns
ExecuteReturn ==
    /\ pc = "execute"
    /\ ~InLoop(taskNum, numTasks)
    /\ pc' = "idle"
    /\ pub' = {}
    /\ UNCHANGED <<taskContext, index, tasks, taskPaths, numPaths, numTasks, taskNum, log,
                   errors, nullDerefs, lastOp, lastId, lastData, ret, ctxBefore,
                   touched>>
    /\ UNCHANGED <<failedAt, inProgress>>

\* ------------------------------------- HdEngine::Execute(index, taskPaths)
\* index->GetTask(taskPath) through a null index is undefined behaviour: the
\* call faults, or it comes back with an empty handle.
NullDerefOutcomes == {"fault", "absent"}

ResolveStep_noContinue(ix, taskPath, ub, acc) ==
    LET reported == IF IsEmpty(taskPath) THEN [acc EXCEPT !.errors = @ + 1] ELSE acc
    IN  IF ix = Null
        THEN IF ub = "fault"
             THEN [reported EXCEPT !.nullDerefs = @ + 1, !.faulted = TRUE]
             ELSE [reported EXCEPT !.nullDerefs = @ + 1, !.errors = @ + 1]
        ELSE IF GetTask(ix, taskPath) = Absent
             THEN [reported EXCEPT !.errors = @ + 1]
             ELSE [reported EXCEPT !.tasks = Append(@, GetTask(ix, taskPath))]

ResolveStep_keepAbsent(ix, taskPath, ub, acc) ==
    IF IsEmpty(taskPath)
    THEN [acc EXCEPT !.errors = @ + 1]
    ELSE IF ix = Null
         THEN IF ub = "fault"
              THEN [acc EXCEPT !.nullDerefs = @ + 1, !.faulted = TRUE]
              ELSE [acc EXCEPT !.nullDerefs = @ + 1, !.errors = @ + 1]
         ELSE IF GetTask(ix, taskPath) = Absent
              THEN [acc EXCEPT !.errors = @ + 1, !.tasks = Append(@, Absent)]
              ELSE [acc EXCEPT !.tasks = Append(@, GetTask(ix, taskPath))]

\* the body of the loop over taskPaths for one path, from the loop state acc
ResolveStep(ix, taskPath, ub, acc) ==
    IF IsEmpty(taskPath)
    THEN [acc EXCEPT !.errors = @ + 1]
    ELSE IF ix = Null
         THEN IF ub = "fault"
              THEN [acc EXCEPT !.nullDerefs = @ + 1, !.faulted = TRUE]
              ELSE [acc EXCEPT !.nullDerefs = @ + 1, !.errors = @ + 1]
         ELSE IF GetTask(ix, taskPath) = Absent
              THEN [acc EXCEPT !.errors = @ + 1]
              ELSE [acc EXCEPT !.tasks = Append(@, GetTask(ix, taskPath))]

\* entry of the path overload for a path list of n paths: the local task
\* list is created empty (tasks.reserve(taskPaths.size()))
ExecutePaths(ix, n) ==
    /\ pc = "idle"
    /\ pc' = "resolving"
    /\ index' = ix
    /\ tasks' = <<>>
    /\ taskPaths' = <<>>
    /\ numPaths' = n
    /\ errors' = 0
    /\ nullDerefs' = 0
    /\ log' = <<>>
    /\ numTasks' = 0
    /\ taskNum' = 0
    /\ ctxBefore' = taskContext
    /\ lastOp' = "ExecutePaths"
    /\ lastId' = DriversToken
    /\ lastData' = EmptyValue
    /\ ret' = NoRet
    /\ pub' = {}
    /\ touched' = FALSE
    /\ failedAt' = 0
    /\ inProgress' = 0
    /\ UNCHANGED taskContext

\* one iteration of the loop over taskPaths; taskPaths holds the paths of
\* the argument read so far, the next one is taskPath
ResolvePath(taskPath, ub) ==
    /\ pc = "resolving"
    /\ Len(taskPaths) < numPaths
    /\ LET step == ResolveStep(index, taskPath, ub,
                     [tasks |-> tasks, errors |-> errors,
                      nullDerefs |-> nullDerefs, faulted |-> FALSE])
       IN  /\ tasks' = step.tasks
           /\ errors' = step.errors
           /\ nullDerefs' = step.nullDerefs
           /\ pc' = IF step.faulted THEN "faulted" ELSE "resolving"
    /\ taskPaths' = Append(taskPaths, taskPath)
    /\ UNCHANGED <<taskContext, index, numPaths, numTasks, taskNum, log, lastOp,
                   lastId, lastData, ret, ctxBefore, pub, touched>>
    /\ UNCHANGED <<failedAt, inProgress>>

\* the loop is over: Execute(index, &tasks); taskPaths is not read again
ExecuteResolved ==
    /\ pc = "resolving"
    /\ Len(taskPaths) = numPaths
    /\ ExecuteEntry(index, tasks, errors)
    /\ taskPaths' = <<>>
    /\ numPaths' = 0
    /\ UNCHANGED <<index, tasks, numTasks, taskNum, nullDerefs, lastOp, lastId,
                   lastData, ret, ctxBefore, pub, touched>>
    /\ UNCHANGED <<failedAt, inProgress>>

Next ==
    \/ \E id \in Tokens, data \in Data : SetTaskContextData(id, data)
    \/ \E id \in Tokens, dataPtr \in {Null, "out"} : GetTaskContextData(id, dataPtr)
    \/ \E id \in Tokens : RemoveTaskContextData(id)
    \/ ClearTaskContextData
    \/ \E ix \in Indexes \cup {Null}, tl \in TaskLists \cup {NullTasks} : Execute(ix, tl)
    \/ \E ix \in Indexes \cup {Null}, n \in 0 .. MaxPaths : ExecutePaths(ix, n)
    \/ \E taskPath \in Paths, ub \in NullDerefOutcomes : ResolvePath(taskPath, ub)
    \/ ExecuteResolved
    \/ \E op \in CtxOps : SyncAll(op)
    \/ \E op \in CtxOps : TaskPrepare(op)
    \/ CommitResources
    \/ \E op \in CtxOps : TaskExecute(op)
    \/ ExecuteReturn

Spec == Init /\ [][Next]_vars

\* the statements of a call in progress: each runs when the one before it
\* has returned
CallStep ==
    \/ \E taskPath \in Paths, ub \in NullDerefOutcomes : ResolvePath(taskPath, ub)
    \/ ExecuteResolved
    \/ \E op \in CtxOps : SyncAll(op)
    \/ \E op \in CtxOps : TaskPrepare(op)
    \/ CommitResources
    \/ \E op \in CtxOps : TaskExecute(op)
    \/ ExecuteReturn

\* every collaborator call returns and the engine goes on
FairSpec == Spec /\ WF_vars(CallStep)

\* ------------------------------------- collaborators that act on their own
\* the index arguments followed here
OpenIndexes == {"ix1", Null}

\* a task list that may hold empty handles: Execute(index, tasks) takes any
HandleLists == SeqsUpTo(TaskHandles \cup {Absent}, MaxTasks)

\* what is read at a position past the end of the list
Invalid == "invalid"

\* the writes of a collaborator followed here: none, or one entry set
OpenOps == {op \in CtxOps : op.kind = "none" \/ (op.kind = "set" /\ op.key = "k" /\ op.value = "d1")}

\* what a collaborator holding the mutable task list does to its length
Resizes == {"keep", "grow", "shrink"}

Resize(tl, rs) ==
    CASE rs = "grow" /\ Len(tl) < MaxTasks -> Append(tl, "tA")
      [] rs = "shrink" /\ Len(tl) > 0 -> SubSeq(tl, 1, Len(tl) - 1)
      [] OTHER -> tl

\* how a task's Prepare or Execute ends: it returns, it returns having failed
\* (both are void, the engine is told nothing), or it does not return (it
\* throws or aborts; Execute has no handler)
TaskOutcomes == {"ok", "failed", "propagates"}

\* task->Prepare(...) and task->Execute(...) where (*tasks)[taskNum] is past
\* the end of the list or an empty handle are undefined behaviour: the call
\* faults, or it goes on with what was read
TaskAccessOutcomes == {"fault", "call"}

\* (*tasks)[taskNum] with no bounds check
TaskRead(tl, n) == IF n < Len(tl) THEN TaskAt(tl, n) ELSE Invalid

CallReturned_async == inProgress < 2

\* a call statement is synchronous: the statement after it starts when the
\* call is over
CallReturned == inProgress = 0

\* the call issued last is still in progress
InCall(name) == inProgress > 0 /\ log # <<>> /\ log[Len(log)].call = name

\* index->SyncAll(tasks, &_taskContext) is called
SyncAllCall ==
    /\ pc = "sync"
    /\ CallReturned
    /\ inProgress' = inProgress + 1
    /\ log' = Append(log, Call("SyncAll", index, 0, tasks))
    /\ UNCHANGED <<taskContext, pc, index, tasks, taskPaths, numPaths, numTasks,
                   taskNum, errors, nullDerefs, lastOp, lastId, lastData, ret,
                   ctxBefore, pub, touched, failedAt>>

SyncAllReturn_sizeAtEntry(op, rs) ==
    /\ pc = "sync"
    /\ InCall("SyncAll")
    /\ inProgress' = inProgress - 1
    /\ taskContext' = ApplyOp(taskContext, op)
    /\ tasks' = Resize(tasks, rs)
    /\ numTasks' = Len(tasks)
    /\ taskNum' = 0
    /\ pc' = "prepare"
    /\ pub' = PubAfter(pub, op, FALSE)
    /\ touched' = (touched \/ OpTouches(op, DriversToken))
    /\ UNCHANGED <<index, taskPaths, numPaths, log, errors, nullDerefs, lastOp, lastId,
                   lastData, ret, ctxBefore, failedAt>>

\* SyncAll returns, having had the context and the list;
\* const size_t numTasks = tasks->size()
SyncAllReturn(op, rs) ==
    /\ pc = "sync"
    /\ InCall("SyncAll")
    /\ inProgress' = inProgress - 1
    /\ taskContext' = ApplyOp(taskContext, op)
    /\ tasks' = Resize(tasks, rs)
    /\ numTasks' = Len(tasks')
    /\ taskNum' = 0
    /\ pc' = "prepare"
    /\ pub' = PubAfter(pub, op, FALSE)
    /\ touched' = (touched \/ OpTouches(op, DriversToken))
    /\ UNCHANGED <<index, taskPaths, numPaths, log, errors, nullDerefs, lastOp, lastId,
                   lastData, ret, ctxBefore, failedAt>>

\* the call of a task method named name at (*tasks)[taskNum]
TaskCall(name, ub) ==
    LET task == TaskRead(tasks, taskNum)
    IN  IF task \notin TaskHandles /\ ub = "fault"
        THEN /\ pc' = "faulted"
             /\ UNCHANGED <<log, inProgress>>
        ELSE /\ log' = Append(log, Call(name, task, taskNum, <<>>))
             /\ inProgress' = inProgress + 1
             /\ UNCHANGED pc

\* the return of a task method: the engine goes on to the next task whether
\* or not the task failed; a call that does not return ends Execute
TaskReturn(outcome) ==
    /\ inProgress' = inProgress - 1
    /\ IF outcome = "propagates"
       THEN pc' = "unwound" /\ UNCHANGED <<taskNum, failedAt>>
       ELSE /\ taskNum' = taskNum + 1
            /\ failedAt' = IF outcome = "failed" /\ failedAt = 0 THEN Len(log)
                           ELSE failedAt
            /\ UNCHANGED pc

\* Task Prepare loop: task->Prepare(&_taskContext, index) is called
PrepareCall(ub) ==
    /\ pc = "prepare"
    /\ InLoop(taskNum, numTasks)
    /\ CallReturned
    /\ TaskCall("Prepare", ub)
    /\ UNCHANGED <<taskContext, index, tasks, taskPaths, numPaths, numTasks, taskNum,
                   errors, nullDerefs, lastOp, lastId, lastData, ret, ctxBefore,
                   pub, touched, failedAt>>

PrepareReturn_stopOnFailure(op, rs, outcome) ==
    /\ pc = "prepare"
    /\ InCall("Prepare")
    /\ inProgress' = inProgress - 1
    /\ taskNum' = taskNum + 1
    /\ failedAt' = IF outcome # "ok" /\ failedAt = 0 THEN Len(log) ELSE failedAt
    /\ pc' = IF outcome = "ok" THEN pc ELSE "idle"
    /\ taskContext' = ApplyOp(taskContext, op)
    /\ tasks' = Resize(tasks, rs)
    /\ pub' = PubAfter(pub, op, TRUE)
    /\ touched' = (touched \/ OpTouches(op, DriversToken))
    /\ UNCHANGED <<index, taskPaths, numPaths, numTasks, log, errors, nullDerefs,
                   lastOp, lastId, lastData, ret, ctxBefore>>

\* Prepare is over; ++taskNum
PrepareReturn(op, rs, outcome) ==
    /\ pc = "prepare"
    /\ InCall("Prepare")
    /\ TaskReturn(outcome)
    /\ taskContext' = ApplyOp(taskContext, op)
    /\ tasks' = Resize(tasks, rs)
    /\ pub' = PubAfter(pub, op, TRUE)
    /\ touched' = (touched \/ OpTouches(op, DriversToken))
    /\ UNCHANGED <<index, taskPaths, numPaths, numTasks, log, errors, nullDerefs,
                   lastOp, lastId, lastData, ret, ctxBefore>>

\* the Prepare loop ends; renderDelegate->CommitResources(...) is called
CommitResourcesCall ==
    /\ pc = "prepare"
    /\ ~InLoop(taskNum, numTasks)
    /\ CallReturned
    /\ inProgress' = inProgress + 1
    /\ log' = Append(log, Call("CommitResources", index, 0, <<>>))
    /\ UNCHANGED <<taskContext, pc, index, tasks, taskPaths, numPaths, numTasks,
                   taskNum, errors, nullDerefs, lastOp, lastId, lastData, ret,
                   ctxBefore, pub, touched, failedAt>>

\* CommitResources returns; the Execution loop starts at taskNum = 0
CommitResourcesReturn(rs) ==
    /\ pc = "prepare"
    /\ InCall("CommitResources")
    /\ inProgress' = inProgress - 1
    /\ tasks' = Resize(tasks, rs)
    /\ taskNum' = 0
    /\ pc' = "execute"
    /\ UNCHANGED <<taskContext, index, taskPaths, numPaths, numTasks, log, errors,
                   nullDerefs, lastOp, lastId, lastData, ret, ctxBefore, pub,
                   touched, failedAt>>

\* Task Execution loop: task->Execute(&_taskContext) is called
TaskExecuteCall(ub) ==
    /\ pc = "execute"
    /\ InLoop(taskNum, numTasks)
    /\ CallReturned
    /\ TaskCall("Execute", ub)
    /\ UNCHANGED <<taskContext, index, tasks, taskPaths, numPaths, numTasks, taskNum,
                   errors, nullDerefs, lastOp, lastId, lastData, ret, ctxBefore,
                   pub, touched, failedAt>>

\* the task's Execute is over; ++taskNum
TaskExecuteReturn(op, outcome) ==
    /\ pc = "execute"
    /\ InCall("Execute")
    /\ TaskReturn(outcome)
    /\ taskContext' = ApplyOp(taskContext, op)
    /\ pub' = PubAfter(pub, op, FALSE)
    /\ touched' = (touched \/ OpTouches(op, DriversToken))
    /\ UNCHANGED <<index, tasks, taskPaths, numPaths, numTasks, log, errors,
                   nullDerefs, lastOp, lastId, lastData, ret, ctxBefore>>

NextOpen ==
    \/ \E ix \in OpenIndexes, tl \in HandleLists \cup {NullTasks} : Execute(ix, tl)
    \/ \E ix \in OpenIndexes, n \in 0 .. MaxTasks : ExecutePaths(ix, n)
    \/ \E taskPath \in Paths, ub \in NullDerefOutcomes : ResolvePath(taskPath, ub)
    \/ ExecuteResolved
    \/ SyncAllCall
    \/ \E op \in OpenOps, rs \in Resizes : SyncAllReturn(op, rs)
    \/ \E ub \in TaskAccessOutcomes : PrepareCall(ub)
    \/ \E op \in OpenOps, rs \in Resizes, outcome \in TaskOutcomes :
          PrepareReturn(op, rs, outcome)
    \/ CommitResourcesCall
    \/ \E rs \in Resizes : CommitResourcesReturn(rs)
    \/ \E ub \in TaskAccessOutcomes : TaskExecuteCall(ub)
    \/ \E op \in OpenOps, outcome \in TaskOutcomes : TaskExecuteReturn(op, outcome)
    \/ ExecuteReturn

OpenSpec == Init /\ [][NextOpen]_vars

\* ---------------------------------------------------------------- properties
\* the calls of the log with a given name
CallsNamed(name) == {i \in DOMAIN log : log[i].call = name}

CallNames == [i \in DOMAIN log |-> log[i].call]

Rank(name) ==
    CASE name = "GetDrivers" -> 0
      [] name = "SyncAll" -> 1
      [] name = "Prepare" -> 2
      [] name = "CommitResources" -> 3
      [] name = "Execute" -> 4

RECURSIVE Repeat(_, _)
Repeat(x, n) == IF n = 0 THEN <<>> ELSE <<x>> \o Repeat(x, n - 1)

\* an Execute call that passed the nullptr check has returned
Returned ==
    /\ pc = "idle"
    /\ lastOp \in {"Execute", "ExecutePaths"}
    /\ index # Null
    /\ tasks # NullTasks

\* C1: in every Execute call with non-null index and task list the calls are
\* made in phase order with barriers: SyncAll before any Prepare, every
\* task's Prepare before CommitResources, CommitResources before any task's
\* Execute; no call of a later phase precedes a call of an earlier phase and
\* no phase is skipped.
PhaseOrder ==
    /\ \A i, j \in DOMAIN log : i < j => Rank(log[i].call) <= Rank(log[j].call)
    /\ \A j \in CallsNamed("Prepare") : \E i \in CallsNamed("SyncAll") : i < j
    /\ \A j \in CallsNamed("CommitResources") :
         /\ \E i \in CallsNamed("SyncAll") : i < j
         /\ Cardinality({i \in CallsNamed("Prepare") : i < j}) = Len(tasks)
    /\ \A j \in CallsNamed("Execute") : \E i \in CallsNamed("CommitResources") : i < j
    /\ Returned =>
         /\ CallsNamed("SyncAll") # {}
         /\ CallsNamed("CommitResources") # {}
         /\ Len(tasks) > 0 => CallsNamed("Prepare") # {} /\ CallsNamed("Execute") # {}

PhaseOrderWitness ==
    /\ Returned
    /\ lastOp = "Execute"
    /\ Len(tasks) = 2
    /\ Len(log) = 7

\* C2: one valid Execute call makes exactly one SyncAll call, one Prepare
\* call per entry of the task list, one CommitResources call and one task
\* Execute call per entry of the task list, in that order.
CallCounts ==
    Returned =>
        /\ Cardinality(CallsNamed("SyncAll")) = 1
        /\ Cardinality(CallsNamed("Prepare")) = Len(tasks)
        /\ Cardinality(CallsNamed("CommitResources")) = 1
        /\ Cardinality(CallsNamed("Execute")) = Len(tasks)
        /\ \A p \in 0 .. Len(tasks) - 1 :
             /\ Cardinality({i \in CallsNamed("Prepare") : log[i].pos = p}) = 1
             /\ Cardinality({i \in CallsNamed("Execute") : log[i].pos = p}) = 1
        /\ CallNames = <<"GetDrivers", "SyncAll">> \o Repeat("Prepare", Len(tasks))
                         \o <<"CommitResources">> \o Repeat("Execute", Len(tasks))

CallCountsWitness ==
    /\ Returned
    /\ Len(tasks) = 2
    /\ tasks[1] = tasks[2]
    /\ Cardinality(CallsNamed("Prepare")) = 2

\* the calls of one phase, in the order they were made
PhaseCalls(name) == SelectSeq(log, LAMBDA c : c.call = name)

\* C3: the Prepare calls go to list positions 0,1,...,n-1 in that order and
\* so do the task Execute calls; an entry written by a Prepare call and not
\* overwritten or removed since is in the context at every later Prepare and
\* at every task Execute of the call.
TaskOrder ==
    /\ \A name \in {"Prepare", "Execute"} :
         \A i \in DOMAIN PhaseCalls(name) :
            /\ PhaseCalls(name)[i].pos = i - 1
            /\ PhaseCalls(name)[i].on = tasks[i]
    /\ Returned => /\ Len(PhaseCalls("Prepare")) = Len(tasks)
                   /\ Len(PhaseCalls("Execute")) = Len(tasks)
    /\ pc \in {"prepare", "execute"} => pub \subseteq taskContext

TaskOrderWitness ==
    /\ pc = "execute"
    /\ Len(tasks) = 2
    /\ tasks[1] # tasks[2]
    /\ Len(PhaseCalls("Execute")) = 2
    /\ pub # {}
    /\ ~(pub \subseteq ctxBefore)


\* C4: Execute with a null index or a null task list reports exactly one
\* usage error and returns with no collaborator call made and the task
\* context, the drivers entry included, as it was before the call.
NullArgumentAborts ==
    (lastOp = "Execute" /\ (index = Null \/ tasks = NullTasks)) =>
        /\ pc = "idle"
        /\ errors = 1
        /\ log = <<>>
        /\ nullDerefs = 0
        /\ taskContext = ctxBefore

NullArgumentAbortsWitness ==
    /\ lastOp = "Execute"
    /\ index # Null
    /\ tasks = NullTasks
    /\ pc = "idle"
    /\ Find(taskContext, DriversToken) # {}
    /\ Find(taskContext, "k") # {}

\* C5: the path overload called with a null index, for any path list, makes
\* no call through the null index, runs no phase, leaves the task context
\* unchanged and returns having reported a usage error.
NullIndexPathCallHarmless ==
    (lastOp = "ExecutePaths" /\ index = Null) =>
        /\ pc \in {"resolving", "idle"}
        /\ nullDerefs = 0
        /\ log = <<>>
        /\ taskContext = ctxBefore
        /\ pc = "idle" => errors >= 1

\* the drivers entry is the single entry under the drivers token and holds
\* the driver set of the index
DriversSeeded(ctx, ix) == Find(ctx, DriversToken) = {Entry(DriversToken, GetDrivers(ix))}

\* C6 as stated: after an Execute call with non-null arguments has returned
\* the context holds exactly one drivers entry, equal to the driver set of
\* the index, whatever SyncAll and the tasks did with the context.
DriversAfterExecute == Returned => DriversSeeded(taskContext, index)

\* C6 amended: after an Execute call with non-null arguments has returned the
\* context holds exactly one drivers entry, equal to the driver set of the
\* index, whatever the context held before the call, provided neither
\* SyncAll nor a task wrote or removed the drivers entry during the call.
DriversAfterExecuteUntouched ==
    (Returned /\ ~touched) => DriversSeeded(taskContext, index)

DriversAfterExecuteWitness ==
    /\ Returned
    /\ ~touched
    /\ Len(tasks) >= 1
    /\ \E e \in Find(ctxBefore, DriversToken) : e.value # GetDrivers(index)
    /\ Find(taskContext, "k") # Find(ctxBefore, "k")

\* C7: at the moment SyncAll is invoked, in every Execute call, the drivers
\* entry is present, single, and equal to the driver set the index returned in
\* this call; nothing but GetDrivers has been called before.
SeededAtSync ==
    pc = "sync" =>
        /\ DriversSeeded(taskContext, index)
        /\ log = <<Call("GetDrivers", index, 0, <<>>)>>
        /\ \A id \in Tokens \ {DriversToken} : Find(taskContext, id) = Find(ctxBefore, id)

SeededAtSyncWitness ==
    /\ pc = "sync"
    /\ \E e \in Find(ctxBefore, DriversToken) : e.value # GetDrivers(index)
    /\ Find(ctxBefore, "k") # {}

\* a path that contributes a task: not empty and GetTask finds a task
Resolves(ix, path) == ~IsEmpty(path) /\ GetTask(ix, path) # Absent

\* the tasks of the resolving paths, in the order of the paths
ExpectedTasks(ix, paths) ==
    LET good == SelectSeq(paths, LAMBDA path : Resolves(ix, path))
    IN  [i \in 1 .. Len(good) |-> GetTask(ix, good[i])]

SkippedPaths(ix, paths) == {i \in DOMAIN paths : ~Resolves(ix, paths[i])}

\* C8: the path overload (with a non-null index) builds the list of the tasks
\* of the non-empty, resolvable paths in the order of the paths, reports one
\* usage error for each empty or unresolvable path and goes on with the
\* remaining paths; the phases of the primary Execute then run on that list.
PathResolution ==
    [][ /\ (pc' = "resolving" /\ index' # Null) =>
             /\ tasks' = ExpectedTasks(index', taskPaths')
             /\ errors' = Cardinality(SkippedPaths(index', taskPaths'))
        /\ (pc = "resolving" /\ index # Null) =>
             /\ pc' \in {"resolving", "sync"}
             /\ pc' = "sync" =>
                  /\ Len(taskPaths) = numPaths
                  /\ tasks' = tasks
                  /\ errors' = errors
        /\ (lastOp = "ExecutePaths" /\ pc \in {"sync", "prepare", "execute"}) =>
             /\ tasks' = tasks
             /\ errors' = errors
             /\ index' = index
        /\ (lastOp' = "ExecutePaths" /\ index' # Null /\ pc' = "idle") =>
             /\ \A i \in DOMAIN log' : log'[i].call = "SyncAll" => log'[i].list = tasks'
             /\ [i \in DOMAIN tasks' |-> Call("Prepare", tasks'[i], i - 1, <<>>)]
                  = SelectSeq(log', LAMBDA c : c.call = "Prepare")
             /\ [i \in DOMAIN tasks' |-> Call("Execute", tasks'[i], i - 1, <<>>)]
                  = SelectSeq(log', LAMBDA c : c.call = "Execute")
      ]_vars

PathResolutionWitness ==
    /\ Returned
    /\ lastOp = "ExecutePaths"
    /\ errors = 2
    /\ tasks = <<"tA", "tB">>
    /\ Len(PhaseCalls("Execute")) = 2

\* C9: an Execute call on an empty task list, given directly or obtained
\* from a path list without a resolvable entry, seeds the drivers entry and
\* makes exactly one SyncAll call with the empty list and exactly one
\* CommitResources call, and no Prepare and no task Execute call.
EmptyListCall ==
    /\ (pc = "sync" /\ tasks = <<>>) => Entry(DriversToken, GetDrivers(index)) \in taskContext
    /\ (Returned /\ tasks = <<>>) =>
         log = << Call("GetDrivers", index, 0, <<>>),
                  Call("SyncAll", index, 0, <<>>),
                  Call("CommitResources", index, 0, <<>>) >>

EmptyListCallWitness ==
    /\ Returned
    /\ lastOp = "ExecutePaths"
    /\ tasks = <<>>
    /\ errors >= 2
    /\ Len(log) = 3

\* C10: SetTaskContextData(k, v) leaves k present with value v; when k was
\* present the number of entries is unchanged, and no other key changes; no
\* state of the engine holds two entries with the same key.
SetIsUpsert ==
    /\ \A e1, e2 \in taskContext : e1.key = e2.key => e1 = e2
    /\ lastOp = "SetTaskContextData" =>
         /\ Lookup(taskContext, lastId) = [found |-> TRUE, data |-> lastData]
         /\ Find(ctxBefore, lastId) # {} =>
              Cardinality(taskContext) = Cardinality(ctxBefore)
         /\ Find(ctxBefore, lastId) = {} =>
              Cardinality(taskContext) = Cardinality(ctxBefore) + 1
         /\ \A id \in Tokens \ {lastId} : Find(taskContext, id) = Find(ctxBefore, id)

SetIsUpsertWitness ==
    /\ lastOp = "SetTaskContextData"
    /\ Find(ctxBefore, lastId) # {}
    /\ Entry(lastId, lastData) \notin ctxBefore
    /\ Cardinality(taskContext) = 2

\* C11: GetTaskContextData on a key without an entry returns absent and on a
\* key with an entry returns its value, and never changes the context;
\* RemoveTaskContextData(k) leaves k absent, changes nothing when k was
\* absent and leaves every other key as it was; after ClearTaskContextData
\* every key is absent.
AccessorContract ==
    /\ lastOp = "GetTaskContextData" =>
         /\ taskContext = ctxBefore
         /\ errors = 0 =>
              /\ Find(ctxBefore, lastId) = {} => ret = NoRet
              /\ \A e \in Find(ctxBefore, lastId) : ret = [found |-> TRUE, data |-> e.value]
         /\ errors # 0 => ret = NoRet
    /\ lastOp = "RemoveTaskContextData" =>
         /\ ~Lookup(taskContext, lastId).found
         /\ Find(ctxBefore, lastId) = {} => taskContext = ctxBefore
         /\ \A id \in Tokens \ {lastId} : Find(taskContext, id) = Find(ctxBefore, id)
    /\ lastOp = "ClearTaskContextData" =>
         \A id \in Tokens : ~Lookup(taskContext, id).found

AccessorContractWitness ==
    /\ lastOp = "RemoveTaskContextData"
    /\ Find(ctxBefore, lastId) # {}
    /\ Cardinality(ctxBefore) = 2
    /\ Cardinality(taskContext) = 1

\* the step is a call of a collaborator that is handed &_taskContext
ContextHandedOut ==
    /\ Len(log') = Len(log) + 1
    /\ log'[Len(log')].call \in {"SyncAll", "Prepare", "Execute"}

\* C12: the context outlives an Execute call: the engine's own steps of a
\* call change no entry other than the drivers entry and remove none, so an
\* entry that no collaborator overwrites or removes is there with the same
\* value during and after the next call; every other change of a call is
\* what a collaborator did through the pointer it was given.
ContextPersists ==
    [][ lastOp' \in {"Execute", "ExecutePaths"} =>
          IF ContextHandedOut
          THEN \E op \in CtxOps : taskContext' = ApplyOp(taskContext, op)
          ELSE /\ \A id \in Tokens \ {DriversToken} :
                    Find(taskContext', id) = Find(taskContext, id)
               /\ Find(taskContext, DriversToken) # {} =>
                    Find(taskContext', DriversToken) # {}
      ]_vars

ContextPersistsWitness ==
    /\ Returned
    /\ Len(tasks) >= 1
    /\ Find(ctxBefore, "k") # {}
    /\ Find(taskContext, "k") = Find(ctxBefore, "k")
    /\ Find(taskContext, DriversToken) # Find(ctxBefore, DriversToken)

\* the flow of one call: Idle -> Seeded -> Synced -> Prepared -> Committed ->
\* Executed -> Idle
FlowSteps ==
    { <<"idle", "idle">>, <<"idle", "sync">>, <<"idle", "resolving">>,
      <<"resolving", "resolving">>, <<"resolving", "sync">>,
      <<"resolving", "idle">>, <<"resolving", "faulted">>,
      <<"sync", "prepare">>, <<"prepare", "prepare">>, <<"prepare", "execute">>,
      <<"execute", "execute">>, <<"execute", "idle">> }

\* C13: an Execute call either aborts at the nullptr check with no step run,
\* or runs Seed, Sync, Prepare, Commit and Execute to completion and returns:
\* no step leaves the call between the seed and the last task's Execute, and,
\* every collaborator call returning, a call that passed the check reaches
\* its return.
RunsToCompletion ==
    /\ [][ /\ <<pc, pc'>> \in FlowSteps
           /\ (pc \in {"idle", "resolving"} /\ pc' = "idle"
                 /\ lastOp' \in {"Execute", "ExecutePaths"}) =>
                /\ log' = <<>>
                /\ taskContext' = taskContext
           /\ (pc \in {"sync", "prepare", "execute"} /\ pc' = "idle") =>
                log' = << Call("GetDrivers", index, 0, <<>>), Call("SyncAll", index, 0, tasks) >>
                       \o [i \in DOMAIN tasks |-> Call("Prepare", tasks[i], i - 1, <<>>)]
                       \o << Call("CommitResources", index, 0, <<>>) >>
                       \o [i \in DOMAIN tasks |-> Call("Execute", tasks[i], i - 1, <<>>)]
         ]_vars
    /\ (pc = "sync") ~> Returned

RunsToCompletionWitness ==
    /\ Returned
    /\ numTasks = 1
    /\ taskNum = numTasks
    /\ Len(log) = 5

\* the calls of an Execute call that ran every phase over count tasks
FullCalls(count) ==
    <<"GetDrivers", "SyncAll">> \o Repeat("Prepare", count)
    \o <<"CommitResources">> \o Repeat("Execute", count)

\* C14 as stated: a failure in a task's Prepare or Execute prevents none of
\* the calls that follow it; when the call is over the engine has issued the
\* same calls as with no failure.
FailureStopsNoCall ==
    ((Returned /\ failedAt # 0) \/ pc = "unwound") => CallNames = FullCalls(numTasks)

\* C14: a task failure that returns to the engine prevents none of the
\* calls that follow it: the engine reads no status, so when Execute returns
\* it has issued the same calls, in the same order, as with no failure.  A
\* task call that does not return ends Execute at that call: it is the last
\* call issued.
FailurePolicy ==
    /\ (Returned /\ failedAt # 0) => CallNames = FullCalls(numTasks)
    /\ (failedAt # 0 /\ pc \in {"prepare", "execute"}) =>
         /\ failedAt \in DOMAIN log
         /\ log[failedAt].call \in {"Prepare", "Execute"}
    /\ pc = "unwound" =>
         /\ log[Len(log)].call \in {"Prepare", "Execute"}
         /\ log[Len(log)].pos = taskNum
         /\ inProgress = 0

FailurePolicyWitness ==
    /\ Returned
    /\ numTasks = 2
    /\ failedAt = 3
    /\ CallNames = FullCalls(2)

TaskCallIssued ==
    /\ Len(log') = Len(log) + 1
    /\ log'[Len(log')].call \in {"Prepare", "Execute"}

\* C16: numTasks is read once per Execute call, when SyncAll has returned,
\* and serves both loops: it is the length the list has then, not the one at
\* entry, it does not change afterwards whatever happens to the list, and a
\* call that returns has made numTasks Prepare calls and numTasks Execute
\* calls.  The positions the loops read are inside the list as long as the
\* list is no shorter than numTasks; a position read past the end is read
\* from a list that shrank after SyncAll.
TaskCountReadOnce ==
    /\ [][ /\ (pc = "sync" /\ pc' = "prepare") => numTasks' = Len(tasks')
           /\ pc \in {"prepare", "execute"} => numTasks' = numTasks
           /\ TaskCallIssued =>
                LET issued == log'[Len(log')]
                IN  /\ issued.pos = taskNum
                    /\ taskNum < numTasks
                    /\ Len(tasks) >= numTasks =>
                         issued.pos < Len(tasks) /\ issued.on = TaskAt(tasks, issued.pos)
                    /\ issued.on = Invalid <=> issued.pos >= Len(tasks)
         ]_vars
    /\ [](Returned =>
            /\ Cardinality(CallsNamed("Prepare")) = numTasks
            /\ Cardinality(CallsNamed("Execute")) = numTasks
            /\ \A n \in 0 .. numTasks - 1 :
                 /\ \E i \in CallsNamed("Prepare") : log[i].pos = n
                 /\ \E i \in CallsNamed("Execute") : log[i].pos = n)

TaskCountReadOnceWitness ==
    /\ Returned
    /\ Len(log[2].list) = 1
    /\ numTasks = 2
    /\ Len(tasks) = 1
    /\ Cardinality(CallsNamed("Prepare")) = 2
    /\ log[Len(log)].on = Invalid

\* C17: the list the path overload hands to Execute(index, tasks) holds
\* present task handles only, whatever the paths and whatever GetTask
\* returned, so every list entry on which a call through the path overload
\* issues Prepare or Execute is a present handle.  Execute(index, tasks)
\* itself looks at no entry: given a non-null list it reports nothing and
\* starts the phases, whatever the list holds.
PresentHandles ==
    [][ /\ (pc = "resolving" /\ pc' = "sync") =>
             \A i \in DOMAIN tasks' : tasks'[i] \in TaskHandles
        /\ (lastOp = "ExecutePaths" /\ TaskCallIssued /\ taskNum < Len(tasks)) =>
             /\ log'[Len(log')].on = TaskAt(tasks, taskNum)
             /\ log'[Len(log')].on \in TaskHandles
        /\ (pc = "idle" /\ lastOp' = "Execute" /\ index' # Null /\ tasks' # NullTasks) =>
             /\ pc' = "sync"
             /\ errors' = 0
             /\ log' = <<Call("GetDrivers", index', 0, <<>>)>>
      ]_vars

PresentHandlesWitness ==
    /\ lastOp = "ExecutePaths"
    /\ errors = 1
    /\ tasks = <<"tA">>
    /\ InCall("Execute")
    /\ log[Len(log)].on = "tA"

====
